---- MODULE Spec2Model ----
(***************************************************************************)
(* Conversation context manager of python-backend/chat_service.py:         *)
(* ChatContextManager (session map, append, token-budget eviction, expiry  *)
(* sweep) and ChatService (send_message turn, history, clear), as driven   *)
(* by the endpoints of python-backend/chat_api.py.                         *)
(*                                                                         *)
(* Time is counted in hours (the unit of cleanup_old_sessions' argument);  *)
(* datetime.now() reads the variable now.  uuid4() for a message id is a   *)
(* fresh counter.  Message text is a string; the token estimate reads its  *)
(* length.  ChatMessage.timestamp is left out: no handler reads it back    *)
(* except to print it.                                                     *)
(*                                                                         *)
(* Scheduling.  The endpoints are coroutines of one event loop and         *)
(* send_message never awaits (the model call is a blocking call), so no    *)
(* other endpoint runs while a model call is outstanding.  The expiry      *)
(* sweep is a plain function handed to BackgroundTasks, which runs it on   *)
(* a worker thread: it, and the clock, do run during a model call.         *)
(***************************************************************************)
EXTENDS Integers, Sequences, FiniteSets, TLC

\* ------------------------------------------------------------------ bounds
MaxTime == 1          \* the clock runs 0..MaxTime
MaxMessages == 3      \* ChatMessage objects constructed in one run
Budget == 2           \* ChatContextManager(max_context_tokens=Budget)
MaxHours == 1         \* cleanup_old_sessions(hours), hours in 0..MaxHours
MaxTurnMessages == 4  \* ChatMessage objects constructed by whole turns (two turns)

\* ------------------------------------------------------------ input sets
SessionIds == {"s1", "s2"}
Roles == {"user", "assistant", "system"}
\* texts of 5 and 17 characters: estimates 1 and 4 tokens
Contents == {"xxxxx", "xxxxxxxxxxxxxxxxx"}
UserTexts == {"xxxxx"}
Responses == {"xxxxx", "xxxxxxxxxxxxxxxxx"}
Modes == {"fast_code", "deep_reasoning", "code_review", "bogus_mode"}
None == "<None>"
CustomPrompts == {None, "custom prompt"}
\* response.thinking of the provider's reply
Traces == {None, "", "reasoning trace"}
\* messages DeepSeekClient.chat_completion raises (status 429, status 401, timeout)
Failures == {"Rate limited. Retry after 60 seconds",
             "Invalid API key. Check your SILICONFLOW_KEY",
             "Request timed out. DeepSeek server might be overloaded"}

\* failure messages that carry several of the signals the except branch tests
\* for, in either case, and messages that carry none
SignalFailures ==
    {"HTTP 429: Invalid API key, gateway timeout",
     "Rate Limit reached (401)",
     "rate limit exceeded, 504",
     "429 Too Many Requests",
     "401 Unauthorized: upstream timeout",
     "Invalid API Key (504)",
     "401 Unauthorized",
     "Gateway Timeout",
     "504",
     "Request timed out",
     "Connection error"}

VARIABLES
    max_context_tokens,  \* ChatContextManager.max_context_tokens
    sessions,            \* ChatContextManager.sessions: id -> ChatSession
    now,                 \* the wall clock read by datetime.now()
    next_id,             \* next value uuid4() yields for a message id
    appended,            \* history: ids of the messages appended to each session since its creation
    call,                \* the send_message call whose model call is outstanding, or NoCall
    last,                \* the last handler step: its name, its arguments, what it returned
    threads,             \* caller threads inside add_message: where each one is
    sweep                \* the worker thread inside cleanup_old_sessions: where it is

vars == <<max_context_tokens, sessions, now, next_id, appended, call, last,
          threads, sweep>>

NoCall == [pc |-> "idle"]

\* the threads that call add_message side by side
Threads == {"t1", "t2"}

\* a thread that is not inside add_message
IdleThread ==
    [pc |-> "idle", session_id |-> "<None>", message |-> "<None>",
     total_tokens |-> 0, orphan |-> FALSE]

\* no sweep is running
NoSweep ==
    [pc |-> "idle", hours |-> 0, cutoff |-> 0, size |-> 0, pending |-> {},
     expired_sessions |-> <<>>, i |-> 1]

\* what a handler step leaves in last; known: the session id was in the map before it
Returned(op, session_id, arg, result) ==
    [op |-> op, session_id |-> session_id, arg |-> arg, result |-> result,
     known |-> session_id \in DOMAIN sessions]

\* ------------------------------------------------------------ ChatMessage
ChatMessage(id, role, content, thinking, tokens) ==
    [id |-> id, role |-> role, content |-> content,
     thinking |-> thinking, tokens |-> tokens]

\* ------------------------------------------------------------ ChatSession
ChatSession(session_id, budget) ==
    [session_id |-> session_id, messages |-> <<>>,
     created_at |-> now, last_active |-> now,
     max_context_tokens |-> budget]

\* ----------------------------------------------------- ChatContextManager
\* variant: eight characters per token
estimate_tokens_div8(text) == Len(text) \div 8

_estimate_tokens(text) == Len(text) \div 4

\* the summing pass of _truncate_context, newest message first
RECURSIVE total_tokens(_)
total_tokens(messages) ==
    IF messages = <<>> THEN 0
    ELSE _estimate_tokens(messages[Len(messages)].content)
         + total_tokens(SubSeq(messages, 1, Len(messages) - 1))

\* variant: the loop stops at two messages
RECURSIVE truncate_loop_keeps_two(_, _, _)
truncate_loop_keeps_two(messages, total, budget) ==
    IF total > budget /\ Len(messages) > 2
    THEN truncate_loop_keeps_two(Tail(messages),
             total - Len(Head(messages).content) \div 4, budget)
    ELSE messages

\* variant: the loop does not keep the latest message
RECURSIVE truncate_loop_no_guard(_, _, _)
truncate_loop_no_guard(messages, total, budget) ==
    IF total > budget /\ Len(messages) > 0
    THEN truncate_loop_no_guard(Tail(messages),
             total - Len(Head(messages).content) \div 4, budget)
    ELSE messages

\* variant: the loop also evicts when the total equals the limit
RECURSIVE truncate_loop_at_limit(_, _, _)
truncate_loop_at_limit(messages, total, budget) ==
    IF total >= budget /\ Len(messages) > 1
    THEN truncate_loop_at_limit(Tail(messages),
             total - Len(Head(messages).content) \div 4, budget)
    ELSE messages

\* the while loop of _truncate_context
RECURSIVE truncate_loop(_, _, _)
truncate_loop(messages, total, budget) ==
    IF total > budget /\ Len(messages) > 1
    THEN truncate_loop(Tail(messages),
                       total - _estimate_tokens(Head(messages).content), budget)
    ELSE messages

_truncate_context(messages, budget) ==
    truncate_loop(messages, total_tokens(messages), budget)

\* variant: the new session replaces the whole map
created_alone(map, session_id) ==
    [sid \in {session_id} |-> ChatSession(session_id, max_context_tokens)]

\* the session map after create_session(session_id)
created(map, session_id) ==
    [sid \in DOMAIN map \cup {session_id} |->
        IF sid = session_id THEN ChatSession(session_id, max_context_tokens)
        ELSE map[sid]]

\* variant: an unknown session is created and the message is dropped
added_drops_first(map, session_id, message) ==
    IF session_id \notin DOMAIN map THEN created(map, session_id)
    ELSE [map EXCEPT ![session_id] =
             [@ EXCEPT !.messages = _truncate_context(Append(@, message),
                                                      max_context_tokens),
                       !.last_active = now]]

\* variant: the append leaves last_active as it was
added_untouched(map, session_id, message) ==
    LET base == IF session_id \in DOMAIN map THEN map ELSE created(map, session_id)
        s == base[session_id]
    IN [base EXCEPT ![session_id] =
           [s EXCEPT !.messages = _truncate_context(Append(s.messages, message),
                                                    max_context_tokens)]]

\* the session map after add_message(session_id, message)
added(map, session_id, message) ==
    LET base == IF session_id \in DOMAIN map THEN map ELSE created(map, session_id)
        s == base[session_id]
    IN [base EXCEPT ![session_id] =
           [s EXCEPT !.messages = _truncate_context(Append(s.messages, message),
                                                    max_context_tokens),
                     !.last_active = now]]

\* the history after add_message(session_id, message)
appended_after(map, hist, session_id, message) ==
    [sid \in DOMAIN map \cup {session_id} |->
        IF sid = session_id
        THEN (IF sid \in DOMAIN map THEN hist[sid] ELSE <<>>) \o <<message.id>>
        ELSE hist[sid]]

\* variant: the list is built newest first
RECURSIVE api_messages_reversed(_)
api_messages_reversed(messages) ==
    IF messages = <<>> THEN <<>>
    ELSE api_messages_reversed(Tail(messages))
         \o <<[role |-> Head(messages).role, content |-> Head(messages).content]>>

\* the loop of get_context_messages
RECURSIVE api_messages(_)
api_messages(messages) ==
    IF messages = <<>> THEN <<>>
    ELSE <<[role |-> Head(messages).role, content |-> Head(messages).content]>>
         \o api_messages(Tail(messages))

context_messages_of(map, session_id) ==
    IF session_id \notin DOMAIN map THEN <<>>
    ELSE api_messages(map[session_id].messages)

Init ==
    /\ max_context_tokens = Budget
    /\ sessions = <<>>
    /\ now = 0
    /\ next_id = 1
    /\ appended = <<>>
    /\ call = NoCall
    /\ last = [op |-> "init", session_id |-> None, arg |-> None, result |-> None,
               known |-> FALSE]
    /\ threads = [t \in Threads |-> IdleThread]
    /\ sweep = NoSweep

Tick ==
    /\ now < MaxTime
    /\ now' = now + 1
    /\ UNCHANGED <<threads, sweep, max_context_tokens, sessions, next_id, appended, call, last>>

create_session(session_id) ==
    /\ sessions' = created(sessions, session_id)
    /\ appended' = [sid \in DOMAIN sessions \cup {session_id} |->
                       IF sid = session_id THEN <<>> ELSE appended[sid]]
    /\ last' = Returned("create_session", session_id, None, session_id)
    /\ UNCHANGED <<threads, sweep, max_context_tokens, now, next_id, call>>

add_message(session_id, message) ==
    /\ next_id' = next_id + 1
    /\ sessions' = added(sessions, session_id, message)
    /\ appended' = appended_after(sessions, appended, session_id, message)
    /\ last' = Returned("add_message", session_id, message, None)
    /\ UNCHANGED <<threads, sweep, max_context_tokens, now, call>>

\* variant: reading an unknown session creates it
get_context_messages_creates(session_id) ==
    /\ sessions' = IF session_id \in DOMAIN sessions THEN sessions
                   ELSE created(sessions, session_id)
    /\ appended' = [sid \in DOMAIN sessions \cup {session_id} |->
                       IF sid \in DOMAIN sessions THEN appended[sid] ELSE <<>>]
    /\ last' = Returned("get_context_messages", session_id, None,
                        context_messages_of(sessions, session_id))
    /\ UNCHANGED <<threads, sweep, max_context_tokens, now, next_id, call>>

get_context_messages(session_id) ==
    /\ last' = Returned("get_context_messages", session_id, None,
                        context_messages_of(sessions, session_id))
    /\ UNCHANGED <<threads, sweep, max_context_tokens, sessions, now, next_id, appended, call>>

\* variant: a session exactly at the cutoff is removed too
cleanup_old_sessions_inclusive(hours) ==
    LET cutoff == now - hours
        expired_sessions == {sid \in DOMAIN sessions :
                                sessions[sid].last_active <= cutoff}
    IN /\ sessions' = [sid \in DOMAIN sessions \ expired_sessions |-> sessions[sid]]
       /\ appended' = [sid \in DOMAIN sessions \ expired_sessions |-> appended[sid]]
       /\ last' = Returned("cleanup_old_sessions", None, hours,
                           Cardinality(expired_sessions))
       /\ UNCHANGED <<threads, sweep, max_context_tokens, now, next_id, call>>

cleanup_old_sessions(hours) ==
    LET cutoff == now - hours
        expired_sessions == {sid \in DOMAIN sessions :
                                sessions[sid].last_active < cutoff}
    IN /\ sessions' = [sid \in DOMAIN sessions \ expired_sessions |-> sessions[sid]]
       /\ appended' = [sid \in DOMAIN sessions \ expired_sessions |-> appended[sid]]
       /\ last' = Returned("cleanup_old_sessions", None, hours,
                           Cardinality(expired_sessions))
       /\ UNCHANGED <<threads, sweep, max_context_tokens, now, next_id, call>>

\* ------------------------------------------------------------ ChatService
\* temperatures in tenths
prompt_templates ==
    [fast_code |-> [system |-> "fast_code system prompt",
                    temperature |-> 3, thinking |-> FALSE],
     deep_reasoning |-> [system |-> "deep_reasoning system prompt",
                         temperature |-> 2, thinking |-> TRUE],
     code_review |-> [system |-> "code_review system prompt",
                      temperature |-> 1, thinking |-> TRUE]]

\* variant: an unknown mode gets the deep_reasoning template
template_of_default_deep(mode) ==
    IF mode \in DOMAIN prompt_templates THEN prompt_templates[mode]
    ELSE prompt_templates["deep_reasoning"]

\* self.prompt_templates.get(mode, self.prompt_templates["fast_code"])
template_of(mode) ==
    IF mode \in DOMAIN prompt_templates THEN prompt_templates[mode]
    ELSE prompt_templates["fast_code"]

\* custom_system_prompt or template["system"]
system_prompt_of(mode, custom_system_prompt) ==
    IF custom_system_prompt \notin {None, ""} THEN custom_system_prompt
    ELSE template_of(mode).system

\* variant: the system prompt is put in front on every turn
assembled_always(context_messages, system_prompt) ==
    <<[role |-> "system", content |-> system_prompt]>> \o context_messages

\* the list send_message assembles from the stored context
assembled(context_messages, system_prompt) ==
    IF Len(context_messages) = 1
    THEN <<[role |-> "system", content |-> system_prompt]>> \o context_messages
    ELSE context_messages

\* ---------------------------------------------------------- DeepSeekClient
\* the messages simple_chat builds from its two arguments
simple_chat_messages(user_message, system_prompt) ==
    (IF system_prompt \notin {None, ""}
     THEN <<[role |-> "system", content |-> system_prompt]>> ELSE <<>>)
    \o <<[role |-> "user", content |-> user_message]>>

\* variant: thinking_chat hands the provider's trace on as it is
thinking_chat_thinking_raw(trace) == trace

\* response.thinking or "No thinking process available"
thinking_chat_thinking(trace) ==
    IF trace \in {None, ""} THEN "No thinking process available" ELSE trace

\* the messages thinking_chat builds from its two arguments
thinking_chat_messages(user_message, system_prompt) ==
    <<[role |-> "system",
       content |-> IF system_prompt \notin {None, ""} THEN system_prompt
                   ELSE "thinking mode system prompt"],
      [role |-> "user", content |-> user_message]>>

\* the arguments chat_completion gets from thinking_chat (template thinking)
\* or simple_chat; temperature in tenths.  context_messages is what
\* send_message assembled: neither call is given it.
chat_request(thinking, user_message, system_prompt, context_messages) ==
    [messages |-> IF thinking THEN thinking_chat_messages(user_message, system_prompt)
                  ELSE simple_chat_messages(user_message, system_prompt),
     temperature |-> IF thinking THEN 3 ELSE 7,
     max_tokens |-> 4000,
     enable_thinking |-> thinking]

\* ------------------------------------------------------ ChatService, again
\* str.lower()
UpperCase == "ABCDEFGHIJKLMNOPQRSTUVWXYZ"
LowerCase == "abcdefghijklmnopqrstuvwxyz"

lower_char(c) ==
    IF \E i \in 1..26 : SubSeq(UpperCase, i, i) = c
    THEN LET i == CHOOSE j \in 1..26 : SubSeq(UpperCase, j, j) = c
         IN SubSeq(LowerCase, i, i)
    ELSE c

RECURSIVE lower(_)
lower(text) ==
    IF Len(text) = 0 THEN ""
    ELSE lower_char(SubSeq(text, 1, 1)) \o lower(SubSeq(text, 2, Len(text)))

\* Python's  sub in text
contains(text, sub) ==
    \E i \in 1..(Len(text) - Len(sub) + 1) : SubSeq(text, i, i + Len(sub) - 1) = sub

\* variant: a rate limit advises the shorter delay
categorize_rate_limit_30(error_str) ==
    IF contains(error_str, "rate limit") \/ contains(error_str, "429")
    THEN [error_type |-> "rate_limit", retry_after |-> 30]
    ELSE IF contains(error_str, "invalid api key") \/ contains(error_str, "401")
    THEN [error_type |-> "auth_error"]
    ELSE IF contains(error_str, "timeout") \/ contains(error_str, "504")
    THEN [error_type |-> "timeout", retry_after |-> 30]
    ELSE [error_type |-> "unknown"]

\* variant: an invalid key advises a retry
categorize_auth_retry(error_str) ==
    IF contains(error_str, "rate limit") \/ contains(error_str, "429")
    THEN [error_type |-> "rate_limit", retry_after |-> 60]
    ELSE IF contains(error_str, "invalid api key") \/ contains(error_str, "401")
    THEN [error_type |-> "auth_error", retry_after |-> 60]
    ELSE IF contains(error_str, "timeout") \/ contains(error_str, "504")
    THEN [error_type |-> "timeout", retry_after |-> 30]
    ELSE [error_type |-> "unknown"]

\* variant: the catch-all advises a retry
categorize_unknown_retry(error_str) ==
    IF contains(error_str, "rate limit") \/ contains(error_str, "429")
    THEN [error_type |-> "rate_limit", retry_after |-> 60]
    ELSE IF contains(error_str, "invalid api key") \/ contains(error_str, "401")
    THEN [error_type |-> "auth_error"]
    ELSE IF contains(error_str, "timeout") \/ contains(error_str, "504")
    THEN [error_type |-> "timeout", retry_after |-> 30]
    ELSE [error_type |-> "unknown", retry_after |-> 30]

\* variant: the auth signals are tested before the rate-limit signals
categorize_auth_first(error_str) ==
    IF contains(error_str, "invalid api key") \/ contains(error_str, "401")
    THEN [error_type |-> "auth_error"]
    ELSE IF contains(error_str, "rate limit") \/ contains(error_str, "429")
    THEN [error_type |-> "rate_limit", retry_after |-> 60]
    ELSE IF contains(error_str, "timeout") \/ contains(error_str, "504")
    THEN [error_type |-> "timeout", retry_after |-> 30]
    ELSE [error_type |-> "unknown"]

\* the categories of the except branch of send_message: the keys it adds to the dict
categorize(error_str) ==
    IF contains(error_str, "rate limit") \/ contains(error_str, "429")
    THEN [error_type |-> "rate_limit", retry_after |-> 60]
    ELSE IF contains(error_str, "invalid api key") \/ contains(error_str, "401")
    THEN [error_type |-> "auth_error"]
    ELSE IF contains(error_str, "timeout") \/ contains(error_str, "504")
    THEN [error_type |-> "timeout", retry_after |-> 30]
    ELSE [error_type |-> "unknown"]

\* categorize(str(e).lower()), tabulated over the failures of the model
categorized == [e \in Failures \cup SignalFailures |-> categorize(lower(e))]

\* the dict the except branch of send_message returns
error_response(e, session_id, mode) ==
    [success |-> FALSE, error |-> e, session_id |-> session_id, mode |-> mode]
        @@ categorized[e]

\* variant: send_message creates the session whether or not it exists
ensured_always_creates(map, session_id) == created(map, session_id)

\* if session_id not in self.context_manager.sessions: create_session(session_id)
ensured(map, session_id) ==
    IF session_id \in DOMAIN map THEN map ELSE created(map, session_id)

\* variant: the session is ensured and the user message is not appended
user_appended_skipped(map, session_id, user_msg) == ensured(map, session_id)

\* the session map after send_message has ensured the session and appended user_msg
user_appended(map, session_id, user_msg) ==
    added(ensured(map, session_id), session_id, user_msg)

\* variant: the system message is put in front of the session's own list
send_message_call_stores_prompt(session_id, user_message, mode, custom_system_prompt) ==
    LET user_msg == ChatMessage(next_id, "user", user_message, None,
                                _estimate_tokens(user_message))
        appended_to == added(ensured(sessions, session_id), session_id, user_msg)
        system_prompt == system_prompt_of(mode, custom_system_prompt)
        after == IF Len(appended_to[session_id].messages) = 1
                 THEN [appended_to EXCEPT ![session_id].messages =
                          <<ChatMessage(0, "system", system_prompt, None, 0)>> \o @]
                 ELSE appended_to
    IN /\ next_id' = next_id + 1
       /\ sessions' = after
       /\ appended' = appended_after(sessions, appended, session_id, user_msg)
       /\ call' = [pc |-> "model_call", session_id |-> session_id, mode |-> mode,
                   user_message |-> user_message, system_prompt |-> system_prompt,
                   custom_system_prompt |-> custom_system_prompt,
                   context_messages |-> context_messages_of(after, session_id),
                   request |->
                       chat_request(template_of(mode).thinking, user_message,
                           system_prompt, context_messages_of(after, session_id)),
                   user_msg |-> user_msg,
                   before |-> IF session_id \in DOMAIN sessions
                              THEN [i \in 1..Len(sessions[session_id].messages) |->
                                       sessions[session_id].messages[i].id]
                              ELSE <<>>]
       /\ last' = Returned("send_message_call", session_id, user_msg, None)
       /\ UNCHANGED <<threads, sweep, max_context_tokens, now>>

\* send_message up to the model call: the session is created if absent, the
\* user message is appended, the outbound list is assembled, the call is made.
\* call.before (history): ids of the messages stored before this call.
send_message_call(session_id, user_message, mode, custom_system_prompt) ==
    LET user_msg == ChatMessage(next_id, "user", user_message, None,
                                _estimate_tokens(user_message))
        after == user_appended(sessions, session_id, user_msg)
        system_prompt == system_prompt_of(mode, custom_system_prompt)
    IN /\ next_id' = next_id + 1
       /\ sessions' = after
       /\ appended' = appended_after(sessions, appended, session_id, user_msg)
       /\ call' = [pc |-> "model_call", session_id |-> session_id, mode |-> mode,
                   user_message |-> user_message, system_prompt |-> system_prompt,
                   custom_system_prompt |-> custom_system_prompt,
                   context_messages |->
                       assembled(context_messages_of(after, session_id), system_prompt),
                   request |->
                       chat_request(template_of(mode).thinking, user_message,
                           system_prompt,
                           assembled(context_messages_of(after, session_id),
                                     system_prompt)),
                   user_msg |-> user_msg,
                   before |-> IF session_id \in DOMAIN sessions
                              THEN [i \in 1..Len(sessions[session_id].messages) |->
                                       sessions[session_id].messages[i].id]
                              ELSE <<>>]
       /\ last' = Returned("send_message_call", session_id, user_msg, None)
       /\ UNCHANGED <<threads, sweep, max_context_tokens, now>>

\* variant: the success dict is returned and the assistant message is not stored
send_message_return_unstored(response_content, trace) ==
    LET thinking == IF template_of(call.mode).thinking
                    THEN thinking_chat_thinking(trace)
                    ELSE None
        assistant_msg == ChatMessage(next_id, "assistant", response_content, thinking,
                                     _estimate_tokens(response_content))
    IN /\ call.pc = "model_call"
       /\ template_of(call.mode).thinking \/ trace = None
       /\ next_id' = next_id + 1
       /\ call' = NoCall
       /\ last' = Returned("send_message", call.session_id, assistant_msg,
                           [success |-> TRUE, message_id |-> assistant_msg.id,
                            response |-> response_content, thinking |-> thinking,
                            mode |-> call.mode, session_id |-> call.session_id,
                            context_length |-> Len(call.context_messages),
                            tokens_used |-> assistant_msg.tokens])
       /\ UNCHANGED <<threads, sweep, max_context_tokens, now, sessions, appended>>

\* variant: the success dict carries the user message's id and the user text's estimate
send_message_return_user_id(response_content, trace) ==
    LET thinking == IF template_of(call.mode).thinking
                    THEN thinking_chat_thinking(trace)
                    ELSE None
        assistant_msg == ChatMessage(next_id, "assistant", response_content, thinking,
                                     _estimate_tokens(response_content))
    IN /\ call.pc = "model_call"
       /\ template_of(call.mode).thinking \/ trace = None
       /\ next_id' = next_id + 1
       /\ sessions' = added(sessions, call.session_id, assistant_msg)
       /\ appended' = appended_after(sessions, appended, call.session_id, assistant_msg)
       /\ call' = NoCall
       /\ last' = Returned("send_message", call.session_id, assistant_msg,
                           [success |-> TRUE, message_id |-> call.user_msg.id,
                            response |-> response_content, thinking |-> thinking,
                            mode |-> call.mode, session_id |-> call.session_id,
                            context_length |-> Len(call.context_messages),
                            tokens_used |-> call.user_msg.tokens])
       /\ UNCHANGED <<threads, sweep, max_context_tokens, now>>

\* the model call returns: the assistant message is appended, the success dict returned
send_message_return(response_content, trace) ==
    LET thinking == IF template_of(call.mode).thinking
                    THEN thinking_chat_thinking(trace)
                    ELSE None
        assistant_msg == ChatMessage(next_id, "assistant", response_content, thinking,
                                     _estimate_tokens(response_content))
    IN /\ call.pc = "model_call"
       /\ template_of(call.mode).thinking \/ trace = None
       /\ next_id' = next_id + 1
       /\ sessions' = added(sessions, call.session_id, assistant_msg)
       /\ appended' = appended_after(sessions, appended, call.session_id, assistant_msg)
       /\ call' = NoCall
       /\ last' = Returned("send_message", call.session_id, assistant_msg,
                           [success |-> TRUE, message_id |-> assistant_msg.id,
                            response |-> response_content, thinking |-> thinking,
                            mode |-> call.mode, session_id |-> call.session_id,
                            context_length |-> Len(call.context_messages),
                            tokens_used |-> assistant_msg.tokens])
       /\ UNCHANGED <<threads, sweep, max_context_tokens, now>>

\* variant: the except branch records the error as an assistant message
send_message_except_appends(e) ==
    LET error_msg == ChatMessage(next_id, "assistant", e, None, 0)
    IN /\ call.pc = "model_call"
       /\ call' = NoCall
       /\ next_id' = next_id + 1
       /\ sessions' = added(sessions, call.session_id, error_msg)
       /\ appended' = appended_after(sessions, appended, call.session_id, error_msg)
       /\ last' = Returned("send_message", call.session_id, [message |-> e],
                           error_response(e, call.session_id, call.mode))
       /\ UNCHANGED <<threads, sweep, max_context_tokens, now>>

\* the model call raises: nothing is appended, the error dict is returned
send_message_except(e) ==
    /\ call.pc = "model_call"
    /\ call' = NoCall
    /\ UNCHANGED <<threads, sweep, max_context_tokens, sessions, now, next_id, appended>>
    /\ last' = Returned("send_message", call.session_id, [message |-> e],
                        error_response(e, call.session_id, call.mode))

\* variant: the loop keeps every role
RECURSIVE history_of_every_role(_)
history_of_every_role(messages) ==
    IF messages = <<>> THEN <<>>
    ELSE <<[id |-> Head(messages).id, role |-> Head(messages).role,
            content |-> Head(messages).content,
            thinking |-> Head(messages).thinking,
            tokens |-> Head(messages).tokens]>>
         \o history_of_every_role(Tail(messages))

\* the loop of get_chat_history
RECURSIVE history_of(_)
history_of(messages) ==
    IF messages = <<>> THEN <<>>
    ELSE (IF Head(messages).role \in {"user", "assistant"}
          THEN <<[id |-> Head(messages).id, role |-> Head(messages).role,
                  content |-> Head(messages).content,
                  thinking |-> Head(messages).thinking,
                  tokens |-> Head(messages).tokens]>>
          ELSE <<>>) \o history_of(Tail(messages))

chat_history_of(map, session_id) ==
    IF session_id \notin DOMAIN map THEN <<>>
    ELSE history_of(map[session_id].messages)

get_chat_history(session_id) ==
    /\ last' = Returned("get_chat_history", session_id, None,
                        chat_history_of(sessions, session_id))
    /\ UNCHANGED <<threads, sweep, max_context_tokens, sessions, now, next_id, appended, call>>

\* variant: clearing one session empties the whole map
clear_session_all(session_id) ==
    /\ sessions' = <<>>
    /\ appended' = <<>>
    /\ last' = Returned("clear_session", session_id, None,
                        session_id \in DOMAIN sessions)
    /\ UNCHANGED <<threads, sweep, max_context_tokens, now, next_id, call>>

clear_session(session_id) ==
    /\ sessions' = [sid \in DOMAIN sessions \ {session_id} |-> sessions[sid]]
    /\ appended' = [sid \in DOMAIN sessions \ {session_id} |-> appended[sid]]
    /\ last' = Returned("clear_session", session_id, None,
                        session_id \in DOMAIN sessions)
    /\ UNCHANGED <<threads, sweep, max_context_tokens, now, next_id, call>>

\* --------------------------------------- add_message, statement by statement
\* ChatContextManager takes no lock.  A thread inside add_message is at one
\* of: check (the membership test), create, append (look the session up and
\* append), touch (set last_active), sum (_truncate_context looks the session
\* up and sums), loop (one test of the while condition and its pop), done.
\* orphan: the session object the thread holds was replaced in the map by
\* another thread's create_session; what it does to it no longer shows.
step_of(t, pc) == [threads EXCEPT ![t].pc = pc]

\* if session_id not in self.sessions
add_message_check(t) ==
    /\ threads[t].pc = "check"
    /\ threads' = step_of(t, IF threads[t].session_id \in DOMAIN sessions
                             THEN "append" ELSE "create")
    /\ UNCHANGED <<sweep, max_context_tokens, sessions, now, next_id, appended,
                   call, last>>

\* self.create_session(session_id)
add_message_create(t) ==
    LET sid == threads[t].session_id
    IN /\ threads[t].pc = "create"
       /\ sessions' = created(sessions, sid)
       /\ appended' = [s \in DOMAIN sessions \cup {sid} |->
                          IF s = sid THEN <<>> ELSE appended[s]]
       /\ threads' = [u \in Threads |->
                         IF u = t THEN [threads[u] EXCEPT !.pc = "append"]
                         ELSE IF threads[u].session_id = sid
                                 /\ threads[u].pc \in {"touch", "loop"}
                         THEN [threads[u] EXCEPT !.orphan = TRUE]
                         ELSE threads[u]]
       /\ UNCHANGED <<sweep, max_context_tokens, now, next_id, call, last>>

\* session = self.sessions[session_id]; session.messages.append(message)
add_message_append(t) ==
    LET sid == threads[t].session_id
    IN /\ threads[t].pc = "append"
       /\ sid \in DOMAIN sessions
       /\ sessions' = [sessions EXCEPT ![sid].messages =
                                           Append(@, threads[t].message)]
       /\ appended' = [appended EXCEPT ![sid] = Append(@, threads[t].message.id)]
       /\ threads' = [threads EXCEPT ![t].pc = "touch", ![t].orphan = FALSE]
       /\ UNCHANGED <<sweep, max_context_tokens, now, next_id, call, last>>

\* session.last_active = datetime.now()
add_message_touch(t) ==
    LET sid == threads[t].session_id
    IN /\ threads[t].pc = "touch"
       /\ sessions' = IF threads[t].orphan THEN sessions
                      ELSE [sessions EXCEPT ![sid].last_active = now]
       /\ threads' = step_of(t, "sum")
       /\ UNCHANGED <<sweep, max_context_tokens, now, next_id, appended, call, last>>

\* _truncate_context: session = self.sessions[session_id] and the summing pass
truncate_context_sum(t) ==
    LET sid == threads[t].session_id
    IN /\ threads[t].pc = "sum"
       /\ sid \in DOMAIN sessions
       /\ threads' = [threads EXCEPT ![t].pc = "loop", ![t].orphan = FALSE,
                                     ![t].total_tokens =
                                         total_tokens(sessions[sid].messages)]
       /\ UNCHANGED <<sweep, max_context_tokens, sessions, now, next_id, appended,
                      call, last>>

\* variant: the while loop tests its condition and removes nothing
truncate_context_loop_spins(t) ==
    LET sid == threads[t].session_id
        messages == sessions[sid].messages
    IN /\ threads[t].pc = "loop"
       /\ IF threads[t].orphan
          THEN threads' = step_of(t, "done")
          ELSE IF threads[t].total_tokens > max_context_tokens /\ Len(messages) > 1
          THEN threads' = threads
          ELSE threads' = step_of(t, "done")
       /\ UNCHANGED <<sweep, max_context_tokens, sessions, now, next_id, appended,
                      call, last>>

\* _truncate_context: one test of the while condition, and the pop it leads to
truncate_context_loop(t) ==
    LET sid == threads[t].session_id
        messages == sessions[sid].messages
    IN /\ threads[t].pc = "loop"
       /\ IF threads[t].orphan
          THEN /\ threads' = step_of(t, "done")
               /\ UNCHANGED sessions
          ELSE IF threads[t].total_tokens > max_context_tokens /\ Len(messages) > 1
          THEN /\ sessions' = [sessions EXCEPT ![sid].messages = Tail(messages)]
               /\ threads' = [threads EXCEPT ![t].total_tokens =
                                  @ - _estimate_tokens(Head(messages).content)]
          ELSE /\ threads' = step_of(t, "done")
               /\ UNCHANGED sessions
       /\ UNCHANGED <<sweep, max_context_tokens, now, next_id, appended, call, last>>

\* ------------------------------ cleanup_old_sessions, statement by statement
\* The sweep on its worker thread: the cutoff is computed (begin), the list
\* comprehension walks self.sessions.items() one entry at a time (scan), the
\* for loop deletes the expired ids one at a time (delete), the count is
\* returned.  The dict iterator raises RuntimeError when the size of the dict
\* is not what it was when the walk began; del raises KeyError on a missing id.
cleanup_begin(hours) ==
    /\ sweep.pc \in {"idle", "raised"}
    /\ sweep' = [pc |-> "scan", hours |-> hours, cutoff |-> now - hours,
                 size |-> Cardinality(DOMAIN sessions), pending |-> {},
                 expired_sessions |-> <<>>, i |-> 1]
    /\ UNCHANGED <<threads, max_context_tokens, sessions, now, next_id, appended,
                   call, last>>

\* one step of the list comprehension; pending holds the ids already visited
cleanup_scan ==
    /\ sweep.pc = "scan"
    /\ IF Cardinality(DOMAIN sessions) # sweep.size
       THEN /\ sweep' = [sweep EXCEPT !.pc = "raised"]
            /\ last' = Returned("cleanup_raised", None, sweep.hours, "RuntimeError")
       ELSE IF DOMAIN sessions \subseteq sweep.pending
       THEN /\ sweep' = [sweep EXCEPT !.pc = "delete"]
            /\ UNCHANGED last
       ELSE /\ \E sid \in DOMAIN sessions \ sweep.pending :
                  sweep' = [sweep EXCEPT
                      !.pending = @ \cup {sid},
                      !.expired_sessions =
                          IF sessions[sid].last_active < sweep.cutoff
                          THEN Append(@, sid) ELSE @]
            /\ UNCHANGED last
    /\ UNCHANGED <<threads, max_context_tokens, sessions, now, next_id, appended, call>>

\* del self.sessions[sid] for the next expired id
cleanup_delete ==
    LET sid == sweep.expired_sessions[sweep.i]
    IN /\ sweep.pc = "delete"
       /\ sweep.i <= Len(sweep.expired_sessions)
       /\ IF sid \in DOMAIN sessions
          THEN /\ sessions' = [s \in DOMAIN sessions \ {sid} |-> sessions[s]]
               /\ appended' = [s \in DOMAIN sessions \ {sid} |-> appended[s]]
               /\ sweep' = [sweep EXCEPT !.i = @ + 1]
               /\ UNCHANGED last
          ELSE /\ sweep' = [sweep EXCEPT !.pc = "raised"]
               /\ last' = Returned("cleanup_raised", None, sweep.hours, "KeyError")
               /\ UNCHANGED <<sessions, appended>>
       /\ UNCHANGED <<threads, max_context_tokens, now, next_id, call>>

\* return len(expired_sessions)
cleanup_return ==
    /\ sweep.pc = "delete"
    /\ sweep.i > Len(sweep.expired_sessions)
    /\ sweep' = NoSweep
    /\ last' = Returned("cleanup_returned", None, sweep.hours,
                        Len(sweep.expired_sessions))
    /\ UNCHANGED <<threads, max_context_tokens, sessions, now, next_id, appended, call>>

\* ------------------------------------------------------------- the callers
\* a caller of the manager appends a message it built: ChatMessage(id, role, content)
DoAddMessage ==
    /\ call = NoCall
    /\ next_id <= MaxMessages
    /\ \E sid \in SessionIds, role \in Roles, content \in Contents :
          add_message(sid, ChatMessage(next_id, role, content, None, 0))

\* a system message put into a session directly
DoInjectSystem ==
    /\ call = NoCall
    /\ next_id <= MaxMessages
    /\ \E sid \in SessionIds, content \in Contents :
          add_message(sid, ChatMessage(next_id, "system", content, None, 0))

DoCreateSession ==
    /\ call = NoCall
    /\ \E sid \in SessionIds : create_session(sid)

\* POST /chat/session: create_session() with a fresh uuid
DoCreateChatSession ==
    /\ call = NoCall
    /\ \E sid \in SessionIds \ DOMAIN sessions : create_session(sid)

DoGetContextMessages ==
    /\ call = NoCall
    /\ \E sid \in SessionIds : get_context_messages(sid)

DoCleanup == \E hours \in 0..MaxHours : cleanup_old_sessions(hours)

DoSendMessage ==
    /\ call = NoCall
    /\ next_id <= MaxMessages
    /\ \E sid \in SessionIds, text \in UserTexts, mode \in Modes,
          custom \in CustomPrompts : send_message_call(sid, text, mode, custom)

DoModelReturn ==
    /\ next_id <= MaxMessages
    /\ \E content \in Responses, trace \in Traces : send_message_return(content, trace)

DoModelRaise == \E e \in Failures : send_message_except(e)

\* the model call raises an exception whose message carries mixed signals
DoModelRaiseSignals == \E e \in SignalFailures : send_message_except(e)

DoGetChatHistory ==
    /\ call = NoCall
    /\ \E sid \in SessionIds : get_chat_history(sid)

DoClearSession ==
    /\ call = NoCall
    /\ \E sid \in SessionIds : clear_session(sid)

\* send_message(session_id, user_message) with the defaults of its signature
DoSendDefault ==
    /\ call = NoCall
    /\ next_id <= MaxMessages
    /\ \E sid \in SessionIds, text \in UserTexts :
          send_message_call(sid, text, "fast_code", None)

\* a user message appended by a caller of the manager
DoAddUserMessage ==
    /\ call = NoCall
    /\ next_id <= MaxMessages
    /\ \E sid \in SessionIds, content \in Contents :
          add_message(sid, ChatMessage(next_id, "user", content, None, 0))

\* two threads are started, each to call add_message once
DoFork ==
    /\ \A t \in Threads : threads[t].pc = "idle"
    /\ next_id + 1 <= MaxMessages
    /\ \E sid1 \in SessionIds, sid2 \in SessionIds,
          content1 \in Contents, content2 \in Contents :
          threads' = [t \in Threads |->
              IF t = "t1"
              THEN [pc |-> "check", session_id |-> sid1,
                    message |-> ChatMessage(next_id, "user", content1, None, 0),
                    total_tokens |-> 0, orphan |-> FALSE]
              ELSE [pc |-> "check", session_id |-> sid2,
                    message |-> ChatMessage(next_id + 1, "user", content2, None, 0),
                    total_tokens |-> 0, orphan |-> FALSE]]
    /\ next_id' = next_id + 2
    /\ last' = Returned("fork", None, sessions, None)
    /\ UNCHANGED <<sweep, max_context_tokens, sessions, now, appended, call>>

\* one statement of one thread
DoThreadStep ==
    \E t \in Threads :
        \/ add_message_check(t)
        \/ add_message_create(t)
        \/ add_message_append(t)
        \/ add_message_touch(t)
        \/ truncate_context_sum(t)
        \/ truncate_context_loop(t)

\* the next statement of add_message on thread t
thread_step(t) ==
    \/ add_message_check(t)
    \/ add_message_create(t)
    \/ add_message_append(t)
    \/ add_message_touch(t)
    \/ truncate_context_sum(t)
    \/ truncate_context_loop(t)

\* both threads are joined
DoJoin ==
    /\ \A t \in Threads : threads[t].pc = "done"
    /\ threads' = [t \in Threads |-> IdleThread]
    /\ last' = Returned("join", None, None, None)
    /\ UNCHANGED <<sweep, max_context_tokens, sessions, now, next_id, appended, call>>

\* the background task of POST /chat starts
DoCleanupBegin == \E hours \in 0..MaxHours : cleanup_begin(hours)

\* add_message called from threads, next to turns of the service
ThreadsNext ==
    \/ Tick
    \/ DoFork
    \/ DoThreadStep
    \/ DoJoin
    \/ DoSendDefault
    \/ DoModelReturn

ThreadsSpec == Init /\ [][ThreadsNext]_vars

\* the sweep on its worker thread, next to the operations of the manager
SweepNext ==
    \/ Tick
    \/ DoAddUserMessage
    \/ DoCreateSession
    \/ DoClearSession
    \/ DoCleanupBegin
    \/ cleanup_scan
    \/ cleanup_delete
    \/ cleanup_return

SweepSpec == Init /\ [][SweepNext]_vars

\* turns of the service next to the sweep on its worker thread
TurnSweepNext ==
    \/ Tick
    \/ DoSendDefault
    \/ DoModelReturn
    \/ DoModelRaise
    \/ DoClearSession
    \/ DoCleanupBegin
    \/ cleanup_scan
    \/ cleanup_delete
    \/ cleanup_return

TurnSweepSpec == Init /\ [][TurnSweepNext]_vars

\* the store with its two reads, and turns of the service
ReadsNext ==
    \/ Tick
    \/ DoCreateSession
    \/ DoAddUserMessage
    \/ DoGetContextMessages
    \/ DoGetChatHistory
    \/ DoClearSession
    \/ DoCleanup
    \/ DoSendDefault
    \/ DoModelReturn
    \/ DoModelRaise

ReadsSpec == Init /\ [][ReadsNext]_vars

\* add_message on threads and turns of the service, every thread scheduled
\* again and again and every model call answered or failed in the end
TerminationNext ==
    \/ DoFork
    \/ DoThreadStep
    \/ DoJoin
    \/ DoSendDefault
    \/ DoModelReturn
    \/ DoModelRaise

TerminationSpec ==
    /\ Init
    /\ [][TerminationNext]_vars
    /\ \A t \in Threads : WF_threads(thread_step(t))
    /\ WF_call(DoModelReturn \/ DoModelRaise)

\* two and more whole turns of the service, one at a time
DoTurn ==
    /\ call = NoCall
    /\ next_id <= MaxTurnMessages
    /\ \E sid \in SessionIds, text \in UserTexts :
          send_message_call(sid, text, "fast_code", None)

DoTurnReturn ==
    /\ next_id <= MaxTurnMessages
    /\ \E content \in Responses : send_message_return(content, None)

TurnsNext ==
    \/ Tick
    \/ DoTurn
    \/ DoTurnReturn
    \/ DoModelRaise
    \/ DoClearSession
    \/ DoCleanup

TurnsSpec == Init /\ [][TurnsNext]_vars

\* the manager on its own
ManagerNext ==
    \/ Tick
    \/ DoCreateSession
    \/ DoAddMessage
    \/ DoGetContextMessages
    \/ DoCleanup

ManagerSpec == Init /\ [][ManagerNext]_vars

\* the service behind the endpoints
ServiceNext ==
    \/ Tick
    \/ DoCleanup
    \/ DoCreateChatSession
    \/ DoInjectSystem
    \/ DoSendMessage
    \/ DoModelReturn
    \/ DoModelRaise
    \/ DoGetChatHistory
    \/ DoClearSession

ServiceSpec == Init /\ [][ServiceNext]_vars

\* the service as the endpoints of chat_api.py drive it
ApiNext ==
    \/ Tick
    \/ DoCleanup
    \/ DoCreateChatSession
    \/ DoSendMessage
    \/ DoModelReturn
    \/ DoModelRaise
    \/ DoGetChatHistory
    \/ DoClearSession

ApiSpec == Init /\ [][ApiNext]_vars

\* turns whose model call fails, between clears of the session
ClassifyNext ==
    \/ DoSendMessage
    \/ DoModelRaiseSignals
    \/ DoClearSession

ClassifySpec == Init /\ [][ClassifyNext]_vars

Next ==
    \/ Tick
    \/ DoCreateSession
    \/ DoAddMessage
    \/ DoGetContextMessages
    \/ DoCleanup
    \/ DoSendMessage
    \/ DoModelReturn
    \/ DoModelRaise
    \/ DoGetChatHistory
    \/ DoClearSession

Spec == Init /\ [][Next]_vars

\* ------------------------------------------------------------------ claims
\* the token estimate of a message: floor(len(content) / 4)
Estimate(m) == Len(m.content) \div 4

RECURSIVE SumEstimates(_)
SumEstimates(messages) ==
    IF messages = <<>> THEN 0
    ELSE Estimate(Head(messages)) + SumEstimates(Tail(messages))

\* the messages a session id holds (none if it is not in the map)
Stored(sid) == IF sid \in DOMAIN sessions THEN sessions[sid].messages ELSE <<>>

Ids(messages) == [i \in 1..Len(messages) |-> messages[i].id]

Suffix(seq, k) == SubSeq(seq, Len(seq) - k + 1, Len(seq))

IsSuffix(part, whole) ==
    /\ Len(part) <= Len(whole)
    /\ part = Suffix(whole, Len(part))

\* the longest non-empty suffix within the budget, or the newest message alone
LongestFittingSuffix(messages, budget) ==
    LET fitting == {k \in 1..Len(messages) : SumEstimates(Suffix(messages, k)) <= budget}
    IN IF fitting = {} THEN Suffix(messages, 1)
       ELSE Suffix(messages, CHOOSE k \in fitting : \A j \in fitting : j <= k)

\* a session from which add_message has evicted
Evicted(sid) ==
    /\ sid \in DOMAIN sessions
    /\ Len(appended[sid]) > Len(sessions[sid].messages)

\* the step just taken is add_message
AddStep == last'.op = "add_message" /\ next_id' = next_id + 1

\* C1: in every session the estimates of the stored messages sum to at most
\* the token budget, or the session holds exactly one message.
C1_EvictionInvariant ==
    \A sid \in DOMAIN sessions :
        \/ SumEstimates(sessions[sid].messages) <= sessions[sid].max_context_tokens
        \/ Len(sessions[sid].messages) = 1

\* add_message has just evicted and left two messages that fill the budget
C1_Witness ==
    /\ last.op = "add_message"
    /\ Evicted(last.session_id)
    /\ Len(Stored(last.session_id)) = 2
    /\ SumEstimates(Stored(last.session_id)) = max_context_tokens

\* C2: when add_message(sid, m) has returned, m is stored in the session and
\* is its last message.
C2_NewestNeverEvicted ==
    last.op = "add_message" =>
        /\ last.session_id \in DOMAIN sessions
        /\ Len(Stored(last.session_id)) >= 1
        /\ Stored(last.session_id)[Len(Stored(last.session_id))] = last.arg

\* add_message has just appended a message over the budget to a session with history
C2_Witness ==
    /\ last.op = "add_message"
    /\ Evicted(last.session_id)
    /\ Estimate(last.arg) > max_context_tokens
    /\ Stored(last.session_id)[Len(Stored(last.session_id))] = last.arg

\* C3: after appending a message whose own estimate exceeds the budget the
\* session holds exactly that message, whatever it held before.
C3_OverBudgetAlone ==
    (last.op = "add_message" /\ Estimate(last.arg) > max_context_tokens) =>
        Stored(last.session_id) = <<last.arg>>

\* an over-budget message was appended after two others and is the only one left
C3_Witness ==
    /\ last.op = "add_message"
    /\ Estimate(last.arg) > max_context_tokens
    /\ last.session_id \in DOMAIN sessions
    /\ Len(appended[last.session_id]) = 3
    /\ Stored(last.session_id) = <<last.arg>>

\* C4: the stored messages of every session are a contiguous suffix, in
\* order, of the messages appended to it since its creation, and
\* get_context_messages returns one {role, content} entry per stored message
\* in that order.
C4_OrderPreservation ==
    /\ \A sid \in DOMAIN sessions :
          IsSuffix(Ids(sessions[sid].messages), appended[sid])
    /\ last.op = "get_context_messages" =>
          last.result = [i \in 1..Len(Stored(last.session_id)) |->
                            [role |-> Stored(last.session_id)[i].role,
                             content |-> Stored(last.session_id)[i].content]]

\* get_context_messages has returned two different entries of a session that evicted
C4_Witness ==
    /\ last.op = "get_context_messages"
    /\ Evicted(last.session_id)
    /\ Len(last.result) = 2
    /\ last.result[1] # last.result[2]

\* budget 1000, ten messages of 500 characters appended to a fresh session
Chars500 ==
    LET x10 == "xxxxxxxxxx"
        x100 == x10 \o x10 \o x10 \o x10 \o x10 \o x10 \o x10 \o x10 \o x10 \o x10
    IN x100 \o x100 \o x100 \o x100 \o x100

RECURSIVE ScenarioStore(_)
ScenarioStore(n) ==
    IF n = 0 THEN <<>>
    ELSE _truncate_context(
             Append(ScenarioStore(n - 1),
                    ChatMessage(n, "user", Chars500, None, 0)), 1000)

ScenarioKeepsLastEight == Ids(ScenarioStore(10)) = <<3, 4, 5, 6, 7, 8, 9, 10>>

\* C5: add_message leaves the longest suffix of (the messages stored before
\* the call, then the new message) whose estimates fit the budget, or the new
\* message alone if none fits; with budget 1000, ten 500-character messages
\* appended to a fresh session leave the last eight.
C5_MinimalEviction ==
    [][/\ AddStep =>
            sessions'[last'.session_id].messages =
                LongestFittingSuffix(Append(Stored(last'.session_id), last'.arg),
                                     max_context_tokens)
       /\ ScenarioKeepsLastEight]_vars

\* add_message has evicted exactly one message and kept two
C5_Witness ==
    /\ last.op = "add_message"
    /\ last.session_id \in DOMAIN sessions
    /\ Len(appended[last.session_id]) = 3
    /\ Len(Stored(last.session_id)) = 2

\* the step just taken is send_message up to its model call
CallStep == last'.op = "send_message_call" /\ next_id' = next_id + 1

\* the step just taken is the except branch of send_message
ExceptStep ==
    /\ call.pc = "model_call"
    /\ call'.pc = "idle"
    /\ last'.op = "send_message"
    /\ ~last'.result.success

\* C6 as stated: when the model call fails, the session holds exactly the
\* messages stored before the call followed by the new user message.
C6_FailureKeepsAllEarlier ==
    [][(ExceptStep /\ call.session_id \in DOMAIN sessions') =>
          Ids(sessions'[call.session_id].messages)
              = call.before \o <<call.user_msg.id>>]_vars

\* C6 amended: the user append of a turn leaves the longest suffix of (the
\* messages stored before the call, then the user message) that fits the
\* budget, and a failing model call adds no message and changes no session.
C6_FailureAddsNothing ==
    [][/\ CallStep =>
            sessions'[last'.session_id].messages =
                LongestFittingSuffix(Append(Stored(last'.session_id), last'.arg),
                                     max_context_tokens)
       /\ ExceptStep => (sessions' = sessions /\ next_id' = next_id)]_vars

\* a failed turn whose user append evicted: the user message is the last one stored
C6_Witness ==
    /\ last.op = "send_message"
    /\ ~last.result.success
    /\ Evicted(last.session_id)
    /\ Stored(last.session_id)[Len(Stored(last.session_id))].role = "user"
    /\ Stored(last.session_id)[Len(Stored(last.session_id))].id = next_id - 1

\* C7: create_session(id) with an id already present returns the id and
\* leaves the session map as it was.
C7_IdempotentCreation ==
    [][(last'.op = "create_session" /\ last'.known) =>
          (sessions' = sessions /\ last'.result = last'.session_id)]_vars

\* C8: add_message on a session id that is not in the map creates the session,
\* which then holds exactly the appended message.
C8_AutoVivification ==
    (last.op = "add_message" /\ ~last.known) =>
        /\ last.session_id \in DOMAIN sessions
        /\ sessions[last.session_id].messages = <<last.arg>>

\* add_message has just created a second session
C8_Witness ==
    /\ last.op = "add_message"
    /\ ~last.known
    /\ DOMAIN sessions = SessionIds

\* the step just taken is cleanup_old_sessions
CleanupStep == last'.op = "cleanup_old_sessions" /\ now' = now

\* C9: cleanup_old_sessions(hours) removes exactly the sessions whose
\* last_active is strictly older than now - hours, leaves the others as they
\* were, and returns the number removed.
C9_ExpirySweep ==
    [][CleanupStep =>
          LET old == {sid \in DOMAIN sessions :
                         sessions[sid].last_active < now - last'.arg}
          IN /\ DOMAIN sessions' = DOMAIN sessions \ old
             /\ \A sid \in DOMAIN sessions' : sessions'[sid] = sessions[sid]
             /\ last'.result = Cardinality(old)]_vars

\* a sweep has removed one session and kept one that is exactly at the cutoff
C9_Witness ==
    /\ last.op = "cleanup_old_sessions"
    /\ last.result = 1
    /\ \E sid \in DOMAIN sessions : sessions[sid].last_active = now - last.arg

Visible(m) == m.role \in {"user", "assistant"}

\* C10: get_chat_history returns no system entry; it returns the user and
\* assistant messages of the session in stored order.
C10_HistoryFiltering ==
    last.op = "get_chat_history" =>
        LET kept == SelectSeq(Stored(last.session_id), Visible)
        IN /\ \A i \in 1..Len(last.result) : last.result[i].role # "system"
           /\ Len(last.result) = Len(kept)
           /\ \A i \in 1..Len(kept) :
                 /\ last.result[i].id = kept[i].id
                 /\ last.result[i].role = kept[i].role
                 /\ last.result[i].content = kept[i].content

\* get_chat_history has returned the user turn of a session that holds a system message
C10_Witness ==
    /\ last.op = "get_chat_history"
    /\ \E i \in 1..Len(Stored(last.session_id)) :
          Stored(last.session_id)[i].role = "system"
    /\ Len(last.result) >= 1

\* the first turn of a session: send_message is called on a session to which
\* nothing has been appended yet (behind the endpoints every append is a turn's)
FirstTurn(sid) == sid \notin DOMAIN sessions \/ appended[sid] = <<>>

\* C11: the list send_message assembles is the stored context with the system
\* prompt put in front on the first turn of a session, and on every later
\* turn of that session the system prompt is not put in front again.
C11_SystemPromptFirstTurnOnly ==
    [][CallStep =>
          LET sid == last'.session_id
              prepended ==
                  call'.context_messages =
                      <<[role |-> "system", content |-> call'.system_prompt]>>
                      \o context_messages_of(sessions', sid)
          IN prepended <=> FirstTurn(sid)]_vars

\* C12: the messages handed to the model call are the list send_message
\* assembled: the retained context of the session in order, the system
\* message in front of it when there is one, the new user message last.
C12_ModelGetsAssembledContext ==
    call.pc = "model_call" => call.request.messages = call.context_messages

\* the failures DeepSeekClient.chat_completion raises on status 429, on status
\* 401 and on requests.exceptions.Timeout
RateLimited == "Rate limited. Retry after 60 seconds"
InvalidApiKey == "Invalid API key. Check your SILICONFLOW_KEY"
TimedOut == "Request timed out. DeepSeek server might be overloaded"

\* send_message has returned a failure result
Failed == last.op = "send_message" /\ ~last.result.success

\* C13: when the model call fails with the client's request-timeout failure,
\* send_message returns error_type "timeout" and retry_after 30.
C13_TimeoutCategorised ==
    (Failed /\ last.arg.message = TimedOut) =>
        /\ last.result.error_type = "timeout"
        /\ "retry_after" \in DOMAIN last.result
        /\ last.result.retry_after = 30

\* the 429 failure with other values of the Retry-After header
RateLimitedVariants ==
    {"Rate limited. Retry after 60 seconds", "Rate limited. Retry after 5 seconds",
     "Rate limited. Retry after 401 seconds", "Rate limited. Retry after 504 seconds"}

RateLimitedVariantsCategorised ==
    \A e \in RateLimitedVariants :
        categorize(lower(e)) = [error_type |-> "rate_limit", retry_after |-> 60]

C15_AuthCategorised ==
    (Failed /\ last.arg.message = InvalidApiKey) =>
        /\ last.result.error_type = "auth_error"
        /\ last.result.error = InvalidApiKey
        /\ "retry_after" \notin DOMAIN last.result

\* a turn has failed with the 401 failure
C15_Witness ==
    /\ Failed
    /\ last.arg.message = InvalidApiKey
    /\ DOMAIN last.result = {"success", "error", "session_id", "mode", "error_type"}

\* the other failures chat_completion raises: no connection, an HTTP error
\* status, a reply without the expected keys
OtherFailures ==
    {"Connection error. Check your internet connection",
     "Request failed: 504 Server Error: Gateway Timeout",
     "Request failed: 500 Server Error: Internal Server Error",
     "Unexpected response format: missing 'choices'"}

Categories == {"rate_limit", "auth_error", "timeout", "unknown"}

\* every category is one of the four, with retry_after exactly for two of them
WellFormedCategory(c) ==
    /\ c.error_type \in Categories
    /\ "retry_after" \in DOMAIN c <=> c.error_type \in {"rate_limit", "timeout"}

OtherFailuresCategorised ==
    \A e \in OtherFailures \cup RateLimitedVariants : WellFormedCategory(categorize(lower(e)))

\* C16: whatever failure the model call raises, send_message returns a dict
\* with success false, the session id and the mode of the call, an
\* error_type among rate_limit, auth_error, timeout, unknown, and retry_after
\* exactly when error_type is rate_limit or timeout.
C16_StructuredFailure ==
    [][/\ OtherFailuresCategorised
       /\ (call.pc = "model_call" /\ call'.pc = "idle") =>
             /\ last'.op = "send_message"
             /\ "success" \in DOMAIN last'.result
             /\ last'.result.session_id = call.session_id
             /\ last'.result.mode = call.mode
             /\ ~last'.result.success =>
                   /\ last'.result.error = last'.arg.message
                   /\ WellFormedCategory(last'.result)]_vars

\* failed turns of every kind the model raises have been returned: this one is "unknown"
C16_Witness ==
    /\ Failed
    /\ last.result.error_type = "unknown"
    /\ "retry_after" \notin DOMAIN last.result

KnownModes == {"fast_code", "deep_reasoning", "code_review"}

\* C17: send_message with a mode that is none of fast_code, deep_reasoning,
\* code_review makes the model call of the fast_code profile (the fast_code
\* system prompt unless a custom one was passed, reasoning disabled) and its
\* successful result carries no reasoning trace.
C17_UnknownModeFallback ==
    /\ (call.pc = "model_call" /\ call.mode \notin KnownModes) =>
          /\ call.system_prompt =
                 IF call.custom_system_prompt = None
                 THEN prompt_templates["fast_code"].system
                 ELSE call.custom_system_prompt
          /\ ~call.request.enable_thinking
          /\ call.request.messages =
                 <<[role |-> "system", content |-> call.system_prompt],
                   [role |-> "user", content |-> call.user_message]>>
    /\ (last.op = "send_message" /\ last.result.mode \notin KnownModes
           /\ last.result.success) =>
          last.result.thinking = None

\* a turn with an unknown mode and no custom prompt has succeeded
C17_Witness ==
    /\ last.op = "send_message"
    /\ last.result.mode = "bogus_mode"
    /\ last.result.success
    /\ last.result.thinking = None
    /\ Len(Stored(last.session_id)) >= 1

\* both threads have come out of add_message, and nothing else ran meanwhile
BothReturned ==
    /\ \A t \in Threads : threads[t].pc = "done"
    /\ last.op = "fork"

\* what the session holds when add_message(sid, first) runs to its end and
\* add_message(sid, second) runs after it, from the map base
Serially(base, sid, first, second) ==
    added(added(base, sid, first), sid, second)[sid].messages

\* C18: when two add_message calls on one session id have run side by side,
\* the session holds what it would hold had one call run to its end before
\* the other began, in one of the two orders.
C18_SameSessionSerialisation ==
    (BothReturned /\ threads["t1"].session_id = threads["t2"].session_id) =>
        LET sid == threads["t1"].session_id
            a == threads["t1"].message
            b == threads["t2"].message
        IN /\ sid \in DOMAIN sessions
           /\ sessions[sid].messages \in
                  {Serially(last.arg, sid, a, b), Serially(last.arg, sid, b, a)}

\* the session ids the step just taken works for: the one of the thread that
\* moved, the one of the turn that began, the one of the turn that returned
Acting ==
    {threads[t].session_id :
        t \in {u \in Threads : /\ threads[u].pc \notin {"idle", "done"}
                               /\ threads'[u] # threads[u]}}
    \cup (IF call.pc = "idle" /\ call'.pc = "model_call" THEN {call'.session_id}
          ELSE {})
    \cup (IF call.pc = "model_call" /\ call'.pc = "idle" THEN {call.session_id}
          ELSE {})

\* C19: a step of add_message or of send_message for one session, however it
\* is interleaved with steps for another, leaves every other session in the
\* map with its messages, created_at and last_active as they were; and
\* send_message on an id that is in the map adds no session.
C19_OtherSessionsUntouched ==
    [][/\ \A other \in DOMAIN sessions :
             other \notin Acting =>
                 /\ other \in DOMAIN sessions'
                 /\ sessions'[other] = sessions[other]
       /\ (CallStep /\ last'.known) => DOMAIN sessions' = DOMAIN sessions]_vars

\* two threads have appended to two different sessions, their statements
\* interleaved: the second began before the first was done, the clock moved
C19_Witness ==
    /\ \A t \in Threads : threads[t].pc = "done"
    /\ threads["t1"].session_id # threads["t2"].session_id
    /\ DOMAIN sessions = SessionIds
    /\ sessions[threads["t1"].session_id].messages = <<threads["t1"].message>>
    /\ sessions[threads["t2"].session_id].messages = <<threads["t2"].message>>
    /\ sessions[threads["t1"].session_id].created_at
          # sessions[threads["t1"].session_id].last_active

\* the sweep has just deleted the session it is at
SweepDeleted ==
    /\ sweep.pc = "delete"
    /\ sweep'.pc = "delete"
    /\ sweep'.i = sweep.i + 1

\* C20: a sweep that runs next to add_message, create_session and
\* clear_session behaves as one step: it never raises because the map changed
\* under its scan or its deletions, and every session it deletes is still
\* expired (last_active before the cutoff) at the moment it is deleted.
C20_SweepIsAtomic ==
    [][/\ sweep'.pc # "raised"
       /\ SweepDeleted =>
             sessions[sweep.expired_sessions[sweep.i]].last_active < sweep.cutoff]_vars

\* the model call of the outstanding send_message has just returned its reply
ReturnStep ==
    /\ call.pc = "model_call"
    /\ call'.pc = "idle"
    /\ last'.op = "send_message"
    /\ last'.result.success

\* C21: when the session of a send_message whose model call is outstanding
\* has been removed (by clear_session or by the sweep), the completion of that
\* send_message does not put a session under that id back into the map.
C21_RemovalIsTerminal ==
    [][(ReturnStep /\ call.session_id \notin DOMAIN sessions) =>
          call.session_id \notin DOMAIN sessions']_vars

\* C22 as stated: after a successful send_message the last two entries of the
\* session's history are the turn's user message and then its assistant
\* message, and the history is longer than before the turn.  (The endpoints
\* store no system message, so the history before the turn has as many
\* entries as the session had messages.)
C22_TurnEndsHistory ==
    [][ReturnStep =>
          LET h == chat_history_of(sessions', call.session_id)
              n == Len(h)
          IN /\ n >= 2
             /\ h[n - 1].id = call.user_msg.id
             /\ h[n].id = last'.result.message_id
             /\ n > Len(call.before)]_vars

\* C22 amended: after a successful send_message the last entry of the
\* session's history is the turn's assistant message; the turn's user message,
\* if the session still stores it, is the entry before it; and the session
\* stores the longest suffix within the budget of what it stored when the
\* model answered followed by the assistant message.
C22_AssistantEndsHistory ==
    [][ReturnStep =>
          LET sid == call.session_id
              h == chat_history_of(sessions', sid)
              n == Len(h)
          IN /\ n >= 1
             /\ h[n].id = last'.result.message_id
             /\ h[n].role = "assistant"
             /\ h[n].content = last'.result.response
             /\ (\E i \in 1..n : h[i].id = call.user_msg.id) =>
                    (n >= 2 /\ h[n - 1].id = call.user_msg.id)
             /\ sid \in DOMAIN sessions'
             /\ sessions'[sid].messages =
                    LongestFittingSuffix(Append(Stored(sid), last'.arg),
                                         max_context_tokens)]_vars

\* a turn has succeeded and its assistant message evicted its user message
C22_Witness ==
    /\ last.op = "send_message"
    /\ last.result.success
    /\ last.session_id \in DOMAIN sessions
    /\ Len(appended[last.session_id]) >= 2
    /\ Ids(sessions[last.session_id].messages) = <<last.result.message_id>>

\* the step just taken is clear_session
ClearStep == last'.op = "clear_session" /\ now' = now

\* C23: clear_session returns TRUE exactly when the session was present;
\* afterwards the session is absent, get_chat_history and get_context_messages
\* of its id are empty, every other session is as it was, and a repeated
\* clear_session of the same id would return FALSE.
C23_ClearSession ==
    [][ClearStep =>
          LET sid == last'.session_id
          IN /\ last'.result = (sid \in DOMAIN sessions)
             /\ sid \notin DOMAIN sessions'
             /\ chat_history_of(sessions', sid) = <<>>
             /\ context_messages_of(sessions', sid) = <<>>
             /\ DOMAIN sessions' = DOMAIN sessions \ {sid}
             /\ \A other \in DOMAIN sessions' : sessions'[other] = sessions[other]
             /\ (sid \in DOMAIN sessions') = FALSE]_vars

\* clear_session has removed a session and the other session still holds a message
C23_Witness ==
    /\ last.op = "clear_session"
    /\ last.result = TRUE
    /\ \E other \in DOMAIN sessions : sessions[other].messages # <<>>

\* the step just taken is one of the two reads
ReadStep ==
    /\ last'.op \in {"get_context_messages", "get_chat_history"}
    /\ now' = now

\* C24: get_context_messages and get_chat_history of an id that is not in the
\* map return the empty sequence, do not create the session and change
\* nothing else.
C24_UnknownReads ==
    [][(ReadStep /\ last'.session_id \notin DOMAIN sessions) =>
          /\ last'.result = <<>>
          /\ last'.session_id \notin DOMAIN sessions'
          /\ UNCHANGED <<sessions, appended, next_id, call, now,
                         max_context_tokens, threads, sweep>>]_vars

\* an unknown session has just been read while another one holds a message
C24_Witness ==
    /\ last.op \in {"get_context_messages", "get_chat_history"}
    /\ ~last.known
    /\ last.result = <<>>
    /\ last.session_id \notin DOMAIN sessions
    /\ \E other \in DOMAIN sessions : sessions[other].messages # <<>>

\* C25: when send_message succeeds, the returned message_id is the id of the
\* last message stored in the session, that message has role assistant and
\* the returned response as its content, and tokens_used is the estimate of
\* the response (its length divided by 4, rounded down).
C25_ResultMatchesStored ==
    [][ReturnStep =>
          LET sid == call.session_id
              stored == sessions'[sid].messages
              newest == stored[Len(stored)]
          IN /\ sid \in DOMAIN sessions'
             /\ stored # <<>>
             /\ newest.id = last'.result.message_id
             /\ newest.role = "assistant"
             /\ newest.content = last'.result.response
             /\ last'.result.tokens_used = Len(last'.result.response) \div 4
             /\ last'.result.tokens_used = newest.tokens]_vars

\* a turn has succeeded after an earlier turn, with a reply of 4 tokens
C25_Witness ==
    /\ last.op = "send_message"
    /\ last.result.success
    /\ last.result.message_id > 2
    /\ last.result.tokens_used = 4

\* no stored user message carries a reasoning trace
UserMessagesBare(map) ==
    \A sid \in DOMAIN map :
        \A i \in 1..Len(map[sid].messages) :
            map[sid].messages[i].role = "user" => map[sid].messages[i].thinking = None

\* C26: a successful turn in deep_reasoning or code_review returns and stores
\* a non-empty reasoning trace; a successful turn in fast_code or in an
\* unknown mode returns and stores none; no user message carries one.
C26_ReasoningFollowsMode ==
    [][/\ UserMessagesBare(sessions')
       /\ ReturnStep =>
             LET stored == sessions'[call.session_id].messages
                 newest == stored[Len(stored)]
             IN /\ newest.thinking = last'.result.thinking
                /\ IF call.mode \in {"deep_reasoning", "code_review"}
                   THEN /\ last'.result.thinking # None
                        /\ Len(last'.result.thinking) > 0
                   ELSE last'.result.thinking = None]_vars

\* a deep_reasoning turn has succeeded although the provider sent no trace
C26_Witness ==
    /\ last.op = "send_message"
    /\ last.result.success
    /\ last.result.mode = "deep_reasoning"
    /\ last.result.thinking = "No thinking process available"

\* C27 as stated: the context_length of a success result is the number of
\* messages the session stores when send_message returns.
C27_ContextLengthIsStoredCount ==
    [][ReturnStep =>
          /\ call.session_id \in DOMAIN sessions'
          /\ last'.result.context_length
                 = Len(sessions'[call.session_id].messages)]_vars

\* C27 amended: the context_length of a success result is the length of the
\* list assembled before the model call: the number of messages the session
\* stored right after the user append, plus one for the system prompt when
\* that number was 1.  The assistant append and its eviction are not counted.
C27_ContextLengthIsAssembledLength ==
    [][/\ CallStep =>
             LET n == Len(sessions'[call'.session_id].messages)
             IN Len(call'.context_messages) = IF n = 1 THEN 2 ELSE n
       /\ ReturnStep =>
             last'.result.context_length = Len(call.context_messages)]_vars

\* a turn has succeeded and its context_length is not the stored count
C27_Witness ==
    /\ last.op = "send_message"
    /\ last.result.success
    /\ last.result.context_length = 2
    /\ Len(Stored(last.session_id)) = 1

\* the step just taken appended a message to the session
AppendedTo(sid) ==
    /\ sid \in DOMAIN appended'
    /\ appended'[sid] # <<>>
    /\ sid \notin DOMAIN appended \/ appended'[sid] # appended[sid]

\* the step just taken is create_session of the id
CreatedNow(sid) ==
    /\ last'.op = "create_session"
    /\ last'.session_id = sid
    /\ now' = now

\* C28: an append to a session (by add_message or by either append of
\* send_message) sets its last_active to the current time, its creation sets
\* created_at and last_active to the current time, and no other step changes
\* it: last_active never decreases, the except branch of a failing turn leaves
\* the value its user append set, and the two reads leave every session as it is.
C28_LastActiveTracksAppends ==
    [][/\ \A sid \in DOMAIN sessions' :
             LET s == sessions'[sid]
             IN /\ AppendedTo(sid) => s.last_active = now
                /\ CreatedNow(sid) => (s.last_active = now /\ s.created_at = now)
                /\ (~AppendedTo(sid) /\ ~CreatedNow(sid)) =>
                       /\ sid \in DOMAIN sessions
                       /\ s.last_active = sessions[sid].last_active
                /\ sid \in DOMAIN sessions =>
                       s.last_active >= sessions[sid].last_active
                /\ s.created_at <= s.last_active
                /\ s.last_active <= now'
       /\ CallStep => AppendedTo(call'.session_id)
       /\ ExceptStep => sessions' = sessions
       /\ ReadStep => sessions' = sessions]_vars

\* a turn on a session created an hour earlier has failed: last_active is the
\* hour of its user append
C28_Witness ==
    /\ last.op = "send_message"
    /\ ~last.result.success
    /\ last.session_id \in DOMAIN sessions
    /\ sessions[last.session_id].created_at = 0
    /\ sessions[last.session_id].last_active = 1

RECURSIVE SumTokens(_)
\* the sum of the tokens fields
SumTokens(messages) ==
    IF messages = <<>> THEN 0
    ELSE Head(messages).tokens + SumTokens(Tail(messages))

\* C29: every stored message has a tokens field equal to the estimate of its
\* content (its length divided by 4, rounded down), so the tokens fields of a
\* session sum to the total that eviction compares against the budget.
C29_TokensFieldIsEstimate ==
    \A sid \in DOMAIN sessions :
        /\ \A i \in 1..Len(sessions[sid].messages) :
               sessions[sid].messages[i].tokens
                   = Len(sessions[sid].messages[i].content) \div 4
        /\ SumTokens(sessions[sid].messages) = SumEstimates(sessions[sid].messages)

\* C30: the temperature of the request made to the provider is the
\* temperature of the template resolved for the mode (in tenths: 3 for
\* fast_code and unknown modes, 2 for deep_reasoning, 1 for code_review).
C30_TemplateTemperatureUsed ==
    call.pc = "model_call" =>
        call.request.temperature = template_of(call.mode).temperature

\* C31: a message stored in a session before and after a step is the same
\* message (same id, role and content), and the messages of a session change
\* only by an append, which keeps a suffix of the old ones and adds the new
\* one at the end, or by the removal of the whole session by clear_session or
\* cleanup_old_sessions.
C31_MessageLifecycle ==
    [][\A sid \in DOMAIN sessions :
          IF sid \notin DOMAIN sessions'
          THEN last'.op \in {"clear_session", "cleanup_old_sessions"}
          ELSE LET old == sessions[sid].messages
                   new == sessions'[sid].messages
               IN /\ \A i \in 1..Len(old), j \in 1..Len(new) :
                        old[i].id = new[j].id => old[i] = new[j]
                  /\ \/ new = old
                     \/ /\ AppendedTo(sid)
                        /\ new # <<>>
                        /\ \E k \in 0..Len(old) :
                              new = Suffix(old, k) \o <<new[Len(new)]>>]_vars

\* C32: send_message on an id that is in the map does not reset the session:
\* created_at stays, and the session then stores the longest suffix within
\* the budget of its earlier messages followed by the new user message, which
\* is the last one.
C32_ExistingSessionKept ==
    [][(CallStep /\ call'.session_id \in DOMAIN sessions) =>
          LET sid == call'.session_id
              old == sessions[sid].messages
              new == sessions'[sid].messages
          IN /\ sessions'[sid].created_at = sessions[sid].created_at
             /\ new = LongestFittingSuffix(Append(old, call'.user_msg),
                                           max_context_tokens)
             /\ new[Len(new)] = call'.user_msg
             /\ \E k \in 0..Len(old) : new = Suffix(old, k) \o <<call'.user_msg>>]_vars

\* a turn has started an hour after the session's creation and the session
\* still holds an earlier message before the new user message
C32_Witness ==
    /\ last.op = "send_message_call"
    /\ last.known
    /\ call.pc = "model_call"
    /\ call.session_id \in DOMAIN sessions
    /\ sessions[call.session_id].created_at < now
    /\ Len(sessions[call.session_id].messages) = 2
    /\ Len(call.before) >= 1

\* thread t has just gone once round the eviction loop
LoopStep(t) ==
    /\ threads[t].pc = "loop"
    /\ threads'[t] # threads[t]
    /\ threads'[t].orphan = threads[t].orphan

\* C33: a thread inside the eviction loop leaves it; each time round the loop
\* removes one message and leaves at least one, or ends the loop, so it
\* removes at most all stored messages but one; and a send_message whose model
\* call is outstanding returns, with a success or a failure result.
C33_Termination ==
    /\ \A t \in Threads : (threads[t].pc = "loop") ~> (threads[t].pc = "done")
    /\ (call.pc = "model_call") ~> (call.pc = "idle")
    /\ [][/\ \A t \in Threads :
               LoopStep(t) =>
                   LET sid == threads[t].session_id
                   IN \/ threads'[t].pc = "done" /\ sessions' = sessions
                      \/ /\ threads'[t].pc = "loop"
                         /\ Len(sessions[sid].messages) > 1
                         /\ sessions'[sid].messages = Tail(sessions[sid].messages)
          /\ (call.pc = "model_call" /\ call'.pc = "idle") =>
                (last'.op = "send_message" /\ last'.result.success \in BOOLEAN)]_vars

\* both threads have left add_message, one after evicting, and a turn has returned
C33_Witness ==
    /\ \A t \in Threads : threads[t].pc = "done"
    /\ \E t \in Threads : Evicted(threads[t].session_id)
    /\ last.op = "send_message"
    /\ call.pc = "idle"

\* C34: a session that holds a message holds at least one message in every
\* later state in which its id is in the map: no step empties a session that
\* stays in the map.
C34_NeverEmptied ==
    [][\A sid \in DOMAIN sessions \cap DOMAIN sessions' :
          sessions[sid].messages # <<>> => sessions'[sid].messages # <<>>]_vars

\* no message of the sequence has role system
NoSystemEntry(seq) == \A i \in 1..Len(seq) : seq[i].role # "system"

\* C35: putting the system message in front of the outbound list does not
\* touch the session: after a step of send_message that prepended it, the
\* session's context is the outbound list without its first entry; and with
\* send_message as the only writer every stored message has role user or
\* assistant and get_context_messages has no system entry.
C35_SystemPromptNotStored ==
    [][/\ \A sid \in DOMAIN sessions' :
             /\ \A i \in 1..Len(sessions'[sid].messages) :
                    sessions'[sid].messages[i].role \in {"user", "assistant"}
             /\ NoSystemEntry(context_messages_of(sessions', sid))
       /\ (CallStep /\ call'.context_messages[1].role = "system") =>
             /\ context_messages_of(sessions', call'.session_id)
                    = Tail(call'.context_messages)
             /\ Ids(sessions'[call'.session_id].messages) = <<call'.user_msg.id>>]_vars

\* a turn whose outbound list began with the system prompt has succeeded
C35_Witness ==
    /\ last.op = "send_message"
    /\ last.result.success
    /\ last.result.context_length = 2
    /\ last.known
    /\ Len(Stored(last.session_id)) = 2
    /\ NoSystemEntry(context_messages_of(sessions, last.session_id))

\* the roles of the messages a session id holds
StoredRoles(sid) == [i \in 1..Len(Stored(sid)) |-> Stored(sid)[i].role]

\* C36: with the turns of a session run one at a time, no session stores two
\* assistant messages next to each other.
C36_NoAdjacentAssistants ==
    \A sid \in DOMAIN sessions :
        \A i \in 1..(Len(sessions[sid].messages) - 1) :
            ~(/\ sessions[sid].messages[i].role = "assistant"
              /\ sessions[sid].messages[i + 1].role = "assistant")

\* after an eviction and a failed turn a session begins with an assistant
\* message followed by the user message of the failed turn
C36_Witness ==
    /\ Failed
    /\ StoredRoles(last.session_id) = <<"assistant", "user">>
    /\ Evicted(last.session_id)

\* the category the except branch is said to give a lowered message: the
\* rate-limit signals first, then the auth signals, then the timeout signals
ClassOf(error_str) ==
    IF contains(error_str, "rate limit") \/ contains(error_str, "429") THEN "rate_limit"
    ELSE IF contains(error_str, "invalid api key") \/ contains(error_str, "401") THEN "auth_error"
    ELSE IF contains(error_str, "timeout") \/ contains(error_str, "504") THEN "timeout"
    ELSE "unknown"

\* the categories of the mixed messages, worked out by hand
ExpectedClass ==
    [e \in SignalFailures |->
        CASE e = "HTTP 429: Invalid API key, gateway timeout" -> "rate_limit"
          [] e = "Rate Limit reached (401)" -> "rate_limit"
          [] e = "rate limit exceeded, 504" -> "rate_limit"
          [] e = "429 Too Many Requests" -> "rate_limit"
          [] e = "401 Unauthorized: upstream timeout" -> "auth_error"
          [] e = "Invalid API Key (504)" -> "auth_error"
          [] e = "401 Unauthorized" -> "auth_error"
          [] e = "Gateway Timeout" -> "timeout"
          [] e = "504" -> "timeout"
          [] OTHER -> "unknown"]

\* C37: the category of a failure result is a function of the failure message
\* alone, with a fixed precedence: a message with a rate-limit signal
\* ("rate limit" or "429", in any case) is rate_limit even when it also
\* carries auth or timeout signals; otherwise one with an auth signal
\* ("invalid api key" or "401") is auth_error; otherwise one with a timeout
\* signal ("timeout" or "504") is timeout; every other message is unknown;
\* and the result carries the message verbatim.
C37_ClassificationPrecedence ==
    (Failed /\ last.arg.message \in SignalFailures) =>
        /\ last.result.error_type = ClassOf(lower(last.arg.message))
        /\ last.result.error_type = ExpectedClass[last.arg.message]
        /\ last.result.error = last.arg.message

\* a failure whose message carries a signal of each kind has been classified
C37_Witness ==
    /\ Failed
    /\ last.arg.message = "HTTP 429: Invalid API key, gateway timeout"
    /\ last.result.error_type = "rate_limit"
    /\ last.result.error = "HTTP 429: Invalid API key, gateway timeout"

====
